---- MODULE Spec2Model ----
(***************************************************************************)
(* A model of src/core/test-runner.ts: the TestRunner that drives a        *)
(* desktop-use client through a test case.                                 *)
(*                                                                         *)
(* JavaScript runs every piece of code between two awaits to completion,   *)
(* so one action of the model is one such piece: it starts where an await  *)
(* resumes (or where executeTestCase is called) and ends where the next    *)
(* promise is awaited or the call returns.  The desktop-use client is the  *)
(* environment: each of its operations is requested in one action and      *)
(* resolves or rejects in a later one.                                     *)
(*                                                                         *)
(* Strings are sequences of one-character strings, an optional field is    *)
(* a sequence of length 0 (absent) or 1 (present).                         *)
(***************************************************************************)
EXTENDS Integers, Sequences, FiniteSets, TLC

VARIABLES
    config,     \* what the constructor was given: this.timeout and this.retries
    direct,     \* a call of one of the runner's other methods, made on its own
    callers,    \* the executeTestCase calls that are made on the TestRunner
    testCase,   \* testCase[p]: the argument of call p
    pc,         \* pc[p]: where call p is suspended
    idx,        \* idx[p]: position in testCase.steps of the step being executed
    result,     \* result[p]: the TestResult object of call p
    trace,      \* history: the calls of launchApp, executeStep, the client and sleep, and how each ended
    now         \* the clock read by new Date()

vars == <<config, direct, callers, testCase, pc, idx, result, trace, now>>

\* ------------------------------------------------------------------ bounds
MaxSteps == 2
MaxTime == 1

Calls == {1, 2}

\* ------------------------------------------------------------------ strings
None == <<>>
Some(v) == <<v>>
IsSome(o) == Len(o) = 1
Get(o) == o[1]

EmptyStr == <<>>
StrA == <<"a">>
Str5 == <<"5">>
Str50 == <<"5", "0">>
StrA50 == <<"a", "5", "0">>
StrSel == <<"n", "a", "m", "e", ":", "O", "K">>
StrCalculator == <<"c", "a", "l", "c", "u", "l", "a", "t", "o", "r">>
StrCalculatorCap == <<"C", "a", "l", "c", "u", "l", "a", "t", "o", "r">>
StrCalc == <<"c", "a", "l", "c">>
StrNotepad == <<"n", "o", "t", "e", "p", "a", "d">>

\* String.prototype.toLowerCase, on the letters the model's strings use
LowerChar(c) == CASE c = "C" -> "c" [] c = "O" -> "o" [] c = "K" -> "k" [] OTHER -> c
toLowerCase(s) == [i \in 1..Len(s) |-> LowerChar(s[i])]

\* String.prototype.includes: sub occurs in s at some position
includes(s, sub) ==
    \E i \in 0..(Len(s) - Len(sub)) :
        \A j \in 1..Len(sub) : s[i + j] = sub[j]

\* a mutant of Truthy: every string that is present counts as true
Truthy_present(o) == IsSome(o)

\* a string, as a condition: the empty string is falsy
Truthy(o) == IsSome(o) /\ Get(o) # EmptyStr

\* parseInt(string): the decimal number the longest prefix of digits denotes,
\* NaN when the string starts with no digit (the model's strings hold no
\* blank and no sign)
NaN == -1
IsDigit(c) == c \in {"0", "1", "2", "3", "4", "5", "6", "7", "8", "9"}
DigitVal(c) ==
    CASE c = "0" -> 0 [] c = "1" -> 1 [] c = "2" -> 2 [] c = "3" -> 3 [] c = "4" -> 4
      [] c = "5" -> 5 [] c = "6" -> 6 [] c = "7" -> 7 [] c = "8" -> 8 [] c = "9" -> 9
RECURSIVE ParseDigits(_, _, _)
ParseDigits(s, i, acc) ==
    IF i > Len(s) \/ ~IsDigit(s[i]) THEN acc
    ELSE ParseDigits(s, i + 1, 10 * acc + DigitVal(s[i]))
parseInt(s) == IF Len(s) = 0 \/ ~IsDigit(s[1]) THEN NaN ELSE ParseDigits(s, 1, 0)

\* ------------------------------------------------------------------ inputs
\* TestStep (models/test-case): action, optional selector, optional value.
\* The description only labels log lines and messages and is left out.
Actions == {"click", "type", "verify", "wait", "scroll"}
Selectors == {None, Some(EmptyStr), Some(StrSel)}
Values == {None, Some(EmptyStr), Some(StrA), Some(Str50)}

Step(a, s, v) == [action |-> a, selector |-> s, value |-> v]

\* the steps the calls are given.  A field the action never reads is absent;
\* a type or verify step comes with every selector and a value, with every
\* value and a selector, and with neither
StepSet ==
    {Step("click", s, None) : s \in Selectors}
    \cup {Step("type", s, Some(StrA)) : s \in Selectors}
    \cup {Step("type", Some(StrSel), v) : v \in Values \ {Some(Str50)}}
    \cup {Step("verify", s, Some(StrA)) : s \in Selectors}
    \cup {Step("verify", Some(StrSel), v) : v \in Values}
    \cup {Step("type", None, None), Step("verify", None, None)}
    \cup {Step("wait", None, v) : v \in Values}
    \cup {Step("scroll", None, None)}

RECURSIVE SeqsUpTo(_, _)
SeqsUpTo(S, n) ==
    IF n = 0 THEN {<<>>}
    ELSE LET shorter == SeqsUpTo(S, n - 1)
         IN shorter \cup {Append(q, x) : q \in {r \in shorter : Len(r) = n - 1}, x \in S}

\* an application launchApp knows under another name, written with a capital,
\* and one it does not
Applications == {StrCalculatorCap, StrNotepad}

TestCases == {[application |-> a, steps |-> q] : a \in Applications, q \in SeqsUpTo(StepSet, MaxSteps)}

\* what the client can answer: the text of an element, and what a failed
\* request rejects with (an ApiError, which is an Error, or a bare value)
Texts == {StrA50, Str5}
ApiErrorThrown == [isError |-> TRUE, isApiError |-> TRUE, message |-> [kind |-> "remote", status |-> 500]]
ValueThrown == [isError |-> FALSE, isApiError |-> FALSE, value |-> [kind |-> "thrown value"]]
Thrown == {ApiErrorThrown, ValueThrown}

\* new Error(message)
NewError(m) == [isError |-> TRUE, isApiError |-> FALSE, message |-> m]

\* ------------------------------------------------------------------ completions
\* how a piece of code ends: normally with a value, or by throwing
Normal(v) == [thrown |-> FALSE, value |-> v]
Throw(e) == [thrown |-> TRUE, error |-> e]

\* ------------------------------------------------------------------ launchApp
SettleDelay == 2000
DefaultWait == 1000

\* a mutant of executableName: only the name in small letters is replaced
executableName_exact(appName) ==
    IF appName = StrCalculator THEN StrCalc ELSE appName

\* the name launchApp asks the client to open
executableName(appName) ==
    IF toLowerCase(appName) = StrCalculator THEN StrCalc ELSE appName

\* a mutant of launchAppCatch: the error is logged and not thrown again
launchAppCatch_swallows(e) == Normal(TRUE)

\* the catch clause of launchApp: logs, then throws the error again
launchAppCatch(e) == Throw(e)

\* a mutant of elementMethodCatch: the error is logged and not thrown again
elementMethodCatch_swallows(e) == Normal("undefined")

\* the catch clauses of findElement, clickElement, typeText and getText: each
\* logs and throws the error again
findElementCatch(e) == Throw(e)
elementMethodCatch(e) == Throw(e)

\* a mutant of verifyElementVisibleCatch: the error is thrown again
verifyElementVisibleCatch_rethrows(e) == Throw(e)

\* the catch clause of verifyElementVisible: logs and returns false
verifyElementVisibleCatch(e) == Normal(FALSE)

\* the catch clause of pressKey: logs and throws the error again
pressKeyCatch(e) == Throw(e)

\* a rejection e of the element's operation, seen from the caller of
\* clickElement, typeText or getText
primitiveRejected(e) == elementMethodCatch(e)

\* a failure e of client.locator, seen from the same caller: it passes
\* findElement, then the catch clause of the method that awaited findElement
locatorRejected(e) ==
    LET c == findElementCatch(e)
    IN IF c.thrown THEN elementMethodCatch(c.error) ELSE c

\* ------------------------------------------------------------------ executeStep
MissingSelector(a) == NewError([kind |-> "Missing selector", action |-> a])
MissingValue(a) == NewError([kind |-> "Missing value", action |-> a])
VerificationFailed(expected, actual) ==
    NewError([kind |-> "Verification failed", expected |-> expected, actual |-> actual])
\* a mutant of UnknownAction: the message does not say which action
UnknownAction_unnamed(a) == NewError([kind |-> "Unknown step action", action |-> "undefined"])
UnknownAction(a) == NewError([kind |-> "Unknown step action", action |-> a])

\* what a request to the client or to sleep looks like when executeStep awaits
AwaitLocator(sel) == Normal([await |-> "locator", selector |-> sel])
AwaitSleep(ms) == Normal([await |-> "sleep", ms |-> ms])

\* a mutant of waitTime: the value counts when it is present, also when empty
waitTime_whenPresent(step) ==
    IF IsSome(step.value) THEN parseInt(Get(step.value)) ELSE DefaultWait

\* const waitTime = step.value ? parseInt(step.value) : 1000
waitTime(step) ==
    IF Truthy(step.value) THEN parseInt(Get(step.value)) ELSE DefaultWait

\* a mutant of executeStepStart: type and verify do not check the value
executeStepStart_valueUnchecked(step) ==
    CASE step.action \in {"click", "type", "verify"} ->
           IF ~Truthy(step.selector) THEN Throw(MissingSelector(step.action))
           ELSE AwaitLocator(Get(step.selector))
      [] step.action = "wait" ->
           AwaitSleep(waitTime(step))
      [] OTHER -> Throw(UnknownAction(step.action))

\* executeStep up to its first await: the switch, the checks of the step's
\* fields, and the first request (findElement calls client.locator at once)
executeStepStart(step) ==
    CASE step.action = "click" ->
           IF ~Truthy(step.selector) THEN Throw(MissingSelector("click"))
           ELSE AwaitLocator(Get(step.selector))
      [] step.action = "type" ->
           IF ~Truthy(step.selector) THEN Throw(MissingSelector("type"))
           ELSE IF ~Truthy(step.value) THEN Throw(MissingValue("type"))
           ELSE AwaitLocator(Get(step.selector))
      [] step.action = "verify" ->
           IF ~Truthy(step.selector) THEN Throw(MissingSelector("verify"))
           ELSE IF ~Truthy(step.value) THEN Throw(MissingValue("verify"))
           ELSE AwaitLocator(Get(step.selector))
      [] step.action = "wait" ->
           AwaitSleep(waitTime(step))
      [] OTHER -> Throw(UnknownAction(step.action))

\* a mutant of elementOp: a click step asks for the element's text
elementOp_clickReads(step) ==
    CASE step.action = "click" -> "getText"
      [] step.action = "type" -> "typeText"
      [] step.action = "verify" -> "getText"

\* the operation clickElement, typeText or getText asks of the located element
elementOp(step) ==
    CASE step.action = "click" -> "click"
      [] step.action = "type" -> "typeText"
      [] step.action = "verify" -> "getText"

\* a mutant of executeStepEnd: the text must equal the value
executeStepEnd_equals(step, text) ==
    IF step.action = "verify" /\ text # Get(step.value)
    THEN Throw(VerificationFailed(Get(step.value), text))
    ELSE Normal(TRUE)

\* executeStep after the element's operation resolved; text is what getText
\* returned (result.text)
executeStepEnd(step, text) ==
    IF step.action = "verify" /\ ~includes(text, Get(step.value))
    THEN Throw(VerificationFailed(Get(step.value), text))
    ELSE Normal(TRUE)

\* ------------------------------------------------------------------ executeTestCase
NoResult ==
    [status |-> "none", startTime |-> 0, endTime |-> 0, duration |-> 0,
     steps |-> <<>>, error |-> None]

\* the TestResult executeTestCase starts with
newResult(t) ==
    [status |-> "PASS", startTime |-> t, endTime |-> t, duration |-> 0,
     steps |-> <<>>, error |-> None]

\* error instanceof Error ? error.message : String(error)
errorMessage(e) == IF e.isError THEN e.message ELSE e.value

\* a mutant of stepPassed: the step's result is put first (unshift for push)
stepPassed_unshift(res, step) ==
    [res EXCEPT !.steps = <<[step |-> step, status |-> "PASS", error |-> None]>> \o @]

\* the step did not throw
stepPassed(res, step) ==
    [res EXCEPT !.steps = Append(@, [step |-> step, status |-> "PASS", error |-> None])]

\* a mutant of catchStep: the failed step is reported like a failed launch
catchStep_asError(res, step, e) ==
    Normal([res EXCEPT
        !.steps = Append(@, [step |-> step, status |-> "FAIL", error |-> Some(errorMessage(e))]),
        !.status = "ERROR",
        !.error = Some([kind |-> "Step failed", message |-> errorMessage(e)])])

\* a mutant of catchStep: the failed step is recorded, the result's status is not set
catchStep_statusKept(res, step, e) ==
    Normal([res EXCEPT
        !.steps = Append(@, [step |-> step, status |-> "FAIL", error |-> Some(errorMessage(e))]),
        !.error = Some([kind |-> "Step failed", message |-> errorMessage(e)])])

\* the catch clause of the loop body: record the failed step; the loop ends
catchStep(res, step, e) ==
    Normal([res EXCEPT
        !.steps = Append(@, [step |-> step, status |-> "FAIL", error |-> Some(errorMessage(e))]),
        !.status = "FAIL",
        !.error = Some([kind |-> "Step failed", message |-> errorMessage(e)])])

\* a mutant of catchTest: a failed launch is reported like a failed step
catchTest_asFail(res, e) ==
    Normal([res EXCEPT
        !.status = "FAIL",
        !.error = Some([kind |-> "Test execution error", message |-> errorMessage(e)])])

\* a mutant of catchTest: the error is logged and thrown again
catchTest_rethrows(res, e) == Throw(e)

\* the catch clause around the launch and the loop
catchTest(res, e) ==
    Normal([res EXCEPT
        !.status = "ERROR",
        !.error = Some([kind |-> "Test execution error", message |-> errorMessage(e)])])

\* a mutant of finish: the duration is computed from the old endTime
finish_staleEnd(res, t) ==
    [res EXCEPT !.endTime = t, !.duration = res.endTime - res.startTime]

\* the last statements of executeTestCase
finish(res, t) ==
    [res EXCEPT !.endTime = t, !.duration = t - res.startTime]

\* ------------------------------------------------------------------ history
\* an entry of the trace: call p, within step i of its test case (0: within
\* launchApp), calls op, or the promise op returned resolves or rejects
Request(p, op, i, arg) == [by |-> p, ev |-> "request", op |-> op, step |-> i, arg |-> arg]
Resolved(p, op, i) == [by |-> p, ev |-> "resolve", op |-> op, step |-> i]
Rejected(p, op, i) == [by |-> p, ev |-> "reject", op |-> op, step |-> i]
\* element.getText resolves: the answer carries the element's text
ResolvedText(p, i, text) ==
    [by |-> p, ev |-> "resolve", op |-> "getText", step |-> i, text |-> text]
Settled(p, op, i, c) == IF c.thrown THEN Rejected(p, op, i) ELSE Resolved(p, op, i)
NoArg == [none |-> TRUE]

\* the operations of the desktop-use client
ClientOps == {"openApplication", "locator", "click", "typeText", "getText"}

\* ------------------------------------------------------------------ actions
steps(p) == testCase[p].steps
currentStep(p) == steps(p)[idx[p]]

\* a mutant of Complete: the runner keeps one result, which every call that
\* has started returns
Complete_sharedResult(p, c, log) ==
    /\ pc' = [pc EXCEPT ![p] = IF c.thrown THEN "threw" ELSE "returned"]
    /\ result' = [q \in Calls |->
                    IF c.thrown \/ pc[q] = "NotStarted" THEN result[q] ELSE finish(c.value, now)]
    /\ trace' = log
    /\ UNCHANGED idx

\* executeTestCase ends: the try statement completed as c, then endTime and
\* duration are set and the result is returned; an error no catch clause
\* handled rejects the promise of the call instead
Complete(p, c, log) ==
    /\ pc' = [pc EXCEPT ![p] = IF c.thrown THEN "threw" ELSE "returned"]
    /\ result' = [result EXCEPT ![p] = IF c.thrown THEN @ ELSE finish(c.value, now)]
    /\ trace' = log
    /\ UNCHANGED idx

\* the for loop from the step at position i on, up to the next await
RunLoop(p, res, i, log) ==
    IF i > Len(steps(p)) THEN Complete(p, Normal(res), log)
    ELSE LET step == steps(p)[i]
             c == executeStepStart(step)
             called == Append(log, Request(p, "executeStep", i, NoArg))
         IN IF c.thrown
            THEN Complete(p, catchStep(res, step, c.error),
                          Append(called, Rejected(p, "executeStep", i)))
            ELSE /\ pc' = [pc EXCEPT ![p] = c.value.await]
                 /\ idx' = [idx EXCEPT ![p] = i]
                 /\ result' = [result EXCEPT ![p] = res]
                 /\ trace' = Append(called,
                        IF c.value.await = "locator"
                        THEN Request(p, "locator", i, [selector |-> c.value.selector])
                        ELSE Request(p, "sleep", i, [ms |-> c.value.ms]))

\* a mutant of StepDone: a step that failed is run again while the runner's
\* retries allow it
StepDone_retries(p, c, log) ==
    LET settled == Append(log, Settled(p, "executeStep", idx[p], c))
        tried == Cardinality({n \in DOMAIN log : log[n] = Request(p, "executeStep", idx[p], NoArg)})
    IN IF c.thrown
       THEN IF tried <= config.retries
            THEN RunLoop(p, result[p], idx[p], settled)
            ELSE Complete(p, catchStep(result[p], currentStep(p), c.error), settled)
       ELSE RunLoop(p, stepPassed(result[p], currentStep(p)), idx[p] + 1, settled)

\* a mutant of StepDone: the catch clause of the loop body has no break
StepDone_noBreak(p, c, log) ==
    LET settled == Append(log, Settled(p, "executeStep", idx[p], c))
    IN IF c.thrown
       THEN RunLoop(p, catchStep(result[p], currentStep(p), c.error).value, idx[p] + 1, settled)
       ELSE RunLoop(p, stepPassed(result[p], currentStep(p)), idx[p] + 1, settled)

\* the awaited executeStep completed as c: the loop body records the step and
\* the loop goes on or ends
StepDone(p, c, log) ==
    LET settled == Append(log, Settled(p, "executeStep", idx[p], c))
    IN IF c.thrown THEN Complete(p, catchStep(result[p], currentStep(p), c.error), settled)
       ELSE RunLoop(p, stepPassed(result[p], currentStep(p)), idx[p] + 1, settled)

\* executeTestCase(testCase[p]) is called: the result object is created and
\* launchApp asks the client to open the application
executeTestCase(p) ==
    /\ p \in callers
    /\ pc[p] = "NotStarted"
    /\ pc' = [pc EXCEPT ![p] = "openApplication"]
    /\ result' = [result EXCEPT ![p] = newResult(now)]
    /\ trace' = trace \o <<Request(p, "launchApp", 0, [name |-> testCase[p].application]),
                           Request(p, "openApplication", 0,
                                   [name |-> executableName(testCase[p].application)])>>
    /\ UNCHANGED <<config, direct, callers, testCase, idx, now>>

\* client.openApplication resolves: launchApp sleeps the settle delay
openApplicationResolves(p) ==
    /\ pc[p] = "openApplication"
    /\ pc' = [pc EXCEPT ![p] = "settle"]
    /\ trace' = trace \o <<Resolved(p, "openApplication", 0),
                             Request(p, "sleep", 0, [ms |-> SettleDelay])>>
    /\ UNCHANGED <<config, direct, callers, testCase, idx, result, now>>

\* client.openApplication rejects: launchApp throws, no step is run
openApplicationRejects(p) ==
    /\ pc[p] = "openApplication"
    /\ \E e \in Thrown :
         LET c == launchAppCatch(e)
             log == trace \o <<Rejected(p, "openApplication", 0), Settled(p, "launchApp", 0, c)>>
         IN IF c.thrown THEN Complete(p, catchTest(result[p], c.error), log)
            ELSE RunLoop(p, result[p], 1, log)
    /\ UNCHANGED <<config, direct, callers, testCase, now>>

\* the settle delay is over: launchApp returns and the loop starts
settleResolves(p) ==
    /\ pc[p] = "settle"
    /\ RunLoop(p, result[p], 1,
               trace \o <<Resolved(p, "sleep", 0), Resolved(p, "launchApp", 0)>>)
    /\ UNCHANGED <<config, direct, callers, testCase, now>>

\* findElement resolves to the element: its operation is requested
locatorResolves(p) ==
    /\ pc[p] = "locator"
    /\ pc' = [pc EXCEPT ![p] = "element"]
    /\ trace' = trace \o <<Resolved(p, "locator", idx[p]),
                             Request(p, elementOp(currentStep(p)), idx[p],
                                     IF currentStep(p).action = "type"
                                     THEN [text |-> currentStep(p).value] ELSE NoArg)>>
    /\ UNCHANGED <<config, direct, callers, testCase, idx, result, now>>

\* findElement rejects
locatorRejects(p) ==
    /\ pc[p] = "locator"
    /\ \E e \in Thrown :
         StepDone(p, locatorRejected(e), Append(trace, Rejected(p, "locator", idx[p])))
    /\ UNCHANGED <<config, direct, callers, testCase, now>>

\* element.click, element.typeText or element.getText resolves
elementResolves(p) ==
    /\ pc[p] = "element"
    /\ \E text \in (IF currentStep(p).action = "verify" THEN Texts ELSE {EmptyStr}) :
         StepDone(p, executeStepEnd(currentStep(p), text),
                  Append(trace,
                         IF currentStep(p).action = "verify"
                         THEN ResolvedText(p, idx[p], text)
                         ELSE Resolved(p, elementOp(currentStep(p)), idx[p])))
    /\ UNCHANGED <<config, direct, callers, testCase, now>>

\* element.click, element.typeText or element.getText rejects
elementRejects(p) ==
    /\ pc[p] = "element"
    /\ \E e \in Thrown :
         StepDone(p, primitiveRejected(e),
                  Append(trace, Rejected(p, elementOp(currentStep(p)), idx[p])))
    /\ UNCHANGED <<config, direct, callers, testCase, now>>

\* the sleep of a wait step is over
sleepResolves(p) ==
    /\ pc[p] = "sleep"
    /\ StepDone(p, Normal(TRUE), Append(trace, Resolved(p, "sleep", idx[p])))
    /\ UNCHANGED <<config, direct, callers, testCase, now>>

\* time passes; the clock counts from the first call and is read for the
\* last time when the last call ends
Tick ==
    /\ \E p \in callers : pc[p] # "NotStarted"
    /\ \E p \in callers : pc[p] \notin {"returned", "threw"}
    /\ now < MaxTime
    /\ now' = now + 1
    /\ UNCHANGED <<config, direct, callers, testCase, pc, idx, result, trace>>

\* ------------------------------------------------------------------ specifications
\* the configurations of the constructor: retries asked for or not, a timeout
\* or none
Configs == {[timeout |-> t, retries |-> r] : t \in {0, 5000}, r \in {0, 1, 3}}
RetryingConfig == [timeout |-> 5000, retries |-> 3]

\* no method is called on its own
NoDirect == [method |-> "none", pc |-> "NotStarted", value |-> None, error |-> None]

NoTestCase == [application |-> StrNotepad, steps |-> <<>>]

\* one call of executeTestCase, on any test case
Init ==
    /\ config = RetryingConfig
    /\ direct = NoDirect
    /\ callers = {1}
    /\ \E tc \in TestCases : testCase = [p \in Calls |-> IF p = 1 THEN tc ELSE NoTestCase]
    /\ pc = [p \in Calls |-> "NotStarted"]
    /\ idx = [p \in Calls |-> 0]
    /\ result = [p \in Calls |-> NoResult]
    /\ trace = <<>>
    /\ now = 0

Next ==
    \/ \E p \in Calls : executeTestCase(p)
    \/ \E p \in Calls : openApplicationResolves(p)
    \/ \E p \in Calls : openApplicationRejects(p)
    \/ \E p \in Calls : settleResolves(p)
    \/ \E p \in Calls : locatorResolves(p)
    \/ \E p \in Calls : locatorRejects(p)
    \/ \E p \in Calls : elementResolves(p)
    \/ \E p \in Calls : elementRejects(p)
    \/ \E p \in Calls : sleepResolves(p)
    \/ Tick

Spec == Init /\ [][Next]_vars

\* the client answers every request and every timer fires: a suspended call
\* is resumed in the end
Resumes(p) ==
    \/ openApplicationResolves(p) \/ openApplicationRejects(p) \/ settleResolves(p)
    \/ locatorResolves(p) \/ locatorRejects(p)
    \/ elementResolves(p) \/ elementRejects(p) \/ sleepResolves(p)

\* one call of executeTestCase, on a test case made of one step of each kind
\* of course a step can take: each action with its fields, a click without
\* selector, an unknown action
FairSteps ==
    {Step("click", Some(StrSel), None), Step("click", None, None),
     Step("type", Some(StrSel), Some(StrA)), Step("verify", Some(StrSel), Some(StrA)),
     Step("wait", None, None), Step("scroll", None, None)}
FairTestCases ==
    {[application |-> StrCalculator, steps |-> q] : q \in SeqsUpTo(FairSteps, MaxSteps)}

InitFair ==
    /\ config \in Configs
    /\ direct = NoDirect
    /\ callers = {1}
    /\ \E tc \in FairTestCases : testCase = [p \in Calls |-> IF p = 1 THEN tc ELSE NoTestCase]
    /\ pc = [p \in Calls |-> "NotStarted"]
    /\ idx = [p \in Calls |-> 0]
    /\ result = [p \in Calls |-> NoResult]
    /\ trace = <<>>
    /\ now = 0

FairSpec == InitFair /\ [][Next]_vars /\ \A p \in Calls : WF_vars(Resumes(p))

\* two calls of executeTestCase on the same TestRunner, the second made at
\* any moment, also while the first is suspended
ConcSteps ==
    {Step("click", Some(StrSel), None), Step("verify", Some(StrSel), Some(StrA)),
     Step("click", None, None), Step("wait", None, None)}
ConcTestCases ==
    {[application |-> StrNotepad, steps |-> q] : q \in {<<>>} \cup {<<s>> : s \in ConcSteps}}

InitConc ==
    /\ config = RetryingConfig
    /\ direct = NoDirect
    /\ callers = Calls
    /\ testCase \in [Calls -> ConcTestCases]
    /\ pc = [p \in Calls |-> "NotStarted"]
    /\ idx = [p \in Calls |-> 0]
    /\ result = [p \in Calls |-> NoResult]
    /\ trace = <<>>
    /\ now = 0

SpecConc == InitConc /\ [][Next]_vars

\* ------------------------------------------------------------------ the methods on their own
\* launchApp, clickElement, typeText, getText, verifyElementVisible and
\* pressKey are public: direct is one call of one of them, made outside
\* executeTestCase.  Its entries of the trace are those of call 0, step 0.
DirectMethods ==
    {"launchApp", "clickElement", "typeText", "getText", "verifyElementVisible", "pressKey"}
StrEnter == <<"E", "n", "t", "e", "r">>

\* the calls that are made: launchApp with a name, the others with a selector
\* and, for typeText and pressKey, a text or a key
DirectCalls ==
    {[method |-> "launchApp", name |-> a, pc |-> "NotStarted", value |-> None, error |-> None] :
        a \in Applications \cup {StrCalculator}}
    \cup {[method |-> m, selector |-> sel, arg |-> x,
           pc |-> "NotStarted", value |-> None, error |-> None] :
        m \in DirectMethods \ {"launchApp"}, sel \in {StrSel, EmptyStr}, x \in {StrA, StrEnter}}

\* the operation each method asks of the located element
directOp(method) ==
    CASE method = "clickElement" -> "click"
      [] method = "typeText" -> "typeText"
      [] method = "getText" -> "getText"
      [] method = "verifyElementVisible" -> "isVisible"
      [] method = "pressKey" -> "pressKey"

\* what the element's operation can resolve with
directAnswers(method) ==
    CASE method = "getText" -> Texts
      [] method = "verifyElementVisible" -> BOOLEAN
      [] OTHER -> {"undefined"}

\* the catch clause of the method
directCatch(method, e) ==
    CASE method = "launchApp" -> launchAppCatch(e)
      [] method = "verifyElementVisible" -> verifyElementVisibleCatch(e)
      [] method = "pressKey" -> pressKeyCatch(e)
      [] OTHER -> elementMethodCatch(e)

\* an answer or an error of the client, as the trace keeps it
ResolvedWith(op, v) == [by |-> 0, ev |-> "resolve", op |-> op, step |-> 0, answer |-> v]
RejectedWith(op, e) == [by |-> 0, ev |-> "reject", op |-> op, step |-> 0, error |-> e]

\* the method ends as c: its promise resolves with a value or rejects
DirectDone(c, log) ==
    /\ direct' = [direct EXCEPT !.pc = IF c.thrown THEN "threw" ELSE "returned",
                                !.value = IF c.thrown THEN None ELSE Some(c.value),
                                !.error = IF c.thrown THEN Some(c.error) ELSE None]
    /\ trace' = log

\* the method is called: launchApp asks the client to open the application,
\* the others ask findElement for the element
directCalled ==
    /\ direct.method \in DirectMethods
    /\ direct.pc = "NotStarted"
    /\ IF direct.method = "launchApp"
       THEN /\ direct' = [direct EXCEPT !.pc = "openApplication"]
            /\ trace' = trace \o <<Request(0, "launchApp", 0, [name |-> direct.name]),
                                   Request(0, "openApplication", 0,
                                           [name |-> executableName(direct.name)])>>
       ELSE /\ direct' = [direct EXCEPT !.pc = "locator"]
            /\ trace' = trace \o <<Request(0, direct.method, 0, [selector |-> direct.selector]),
                                   Request(0, "locator", 0, [selector |-> direct.selector])>>
    /\ UNCHANGED <<config, callers, testCase, pc, idx, result, now>>

\* client.openApplication resolves: launchApp sleeps the settle delay
directOpenResolves ==
    /\ direct.pc = "openApplication"
    /\ direct' = [direct EXCEPT !.pc = "settle"]
    /\ trace' = trace \o <<Resolved(0, "openApplication", 0),
                           Request(0, "sleep", 0, [ms |-> SettleDelay])>>
    /\ UNCHANGED <<config, callers, testCase, pc, idx, result, now>>

\* client.openApplication rejects
directOpenRejects ==
    /\ direct.pc = "openApplication"
    /\ \E e \in Thrown :
         DirectDone(directCatch("launchApp", e),
                    Append(trace, RejectedWith("openApplication", e)))
    /\ UNCHANGED <<config, callers, testCase, pc, idx, result, now>>

\* the settle delay is over: launchApp returns
directSettleResolves ==
    /\ direct.pc = "settle"
    /\ DirectDone(Normal("undefined"), Append(trace, Resolved(0, "sleep", 0)))
    /\ UNCHANGED <<config, callers, testCase, pc, idx, result, now>>

\* findElement resolves: the method asks its operation of the element
directLocatorResolves ==
    /\ direct.pc = "locator"
    /\ direct' = [direct EXCEPT !.pc = "element"]
    /\ trace' = trace \o <<Resolved(0, "locator", 0),
                           Request(0, directOp(direct.method), 0, [arg |-> direct.arg])>>
    /\ UNCHANGED <<config, callers, testCase, pc, idx, result, now>>

\* findElement rejects
directLocatorRejects ==
    /\ direct.pc = "locator"
    /\ \E e \in Thrown :
         LET c == findElementCatch(e)
         IN DirectDone(IF c.thrown THEN directCatch(direct.method, c.error) ELSE c,
                       Append(trace, RejectedWith("locator", e)))
    /\ UNCHANGED <<config, callers, testCase, pc, idx, result, now>>

\* the operation of the element resolves: getText returns result.text,
\* verifyElementVisible the answer of isVisible, the others nothing
directElementResolves ==
    /\ direct.pc = "element"
    /\ \E v \in directAnswers(direct.method) :
         DirectDone(Normal(v), Append(trace, ResolvedWith(directOp(direct.method), v)))
    /\ UNCHANGED <<config, callers, testCase, pc, idx, result, now>>

\* the operation of the element rejects
directElementRejects ==
    /\ direct.pc = "element"
    /\ \E e \in Thrown :
         DirectDone(directCatch(direct.method, e),
                    Append(trace, RejectedWith(directOp(direct.method), e)))
    /\ UNCHANGED <<config, callers, testCase, pc, idx, result, now>>

\* one call of one method of the runner, and no call of executeTestCase
InitDirect ==
    /\ config \in Configs
    /\ direct \in DirectCalls
    /\ callers = {}
    /\ testCase = [p \in Calls |-> NoTestCase]
    /\ pc = [p \in Calls |-> "NotStarted"]
    /\ idx = [p \in Calls |-> 0]
    /\ result = [p \in Calls |-> NoResult]
    /\ trace = <<>>
    /\ now = 0

NextDirect ==
    \/ directCalled
    \/ directOpenResolves
    \/ directOpenRejects
    \/ directSettleResolves
    \/ directLocatorResolves
    \/ directLocatorRejects
    \/ directElementResolves
    \/ directElementRejects

SpecDirect == InitDirect /\ [][NextDirect]_vars

\* ------------------------------------------------------------------ claims
Occurs(e) == \E n \in DOMAIN trace : trace[n] = e
Returned(p) == pc[p] = "returned"
LaunchSucceeded(p) == Occurs(Resolved(p, "launchApp", 0))
LaunchFailed(p) == Occurs(Rejected(p, "launchApp", 0))
StepSucceeded(p, i) == Occurs(Resolved(p, "executeStep", i))
StepFailed(p, i) == Occurs(Rejected(p, "executeStep", i))
\* step k is the first step of call p whose executeStep fails
FirstFailure(p, k) == StepFailed(p, k) /\ \A i \in 1..(k - 1) : ~StepFailed(p, i)
\* something of step i of call p was called
Attempted(p, i) == \E n \in DOMAIN trace : trace[n].by = p /\ trace[n].step = i

\* C1: when the launch succeeded and step k is the first step whose
\* executeStep fails, the call has returned a result with exactly k step
\* results, for the first k steps of the test case in order, the first k-1
\* PASS and the k-th FAIL with an error message, the status is FAIL and the
\* error is set; no step after k is attempted.
C1_FirstFailureStops ==
    \A p \in callers : \A k \in 1..Len(steps(p)) :
        (LaunchSucceeded(p) /\ FirstFailure(p, k)) =>
            /\ Returned(p)
            /\ Len(result[p].steps) = k
            /\ \A i \in 1..k : result[p].steps[i].step = steps(p)[i]
            /\ \A i \in 1..(k - 1) :
                 result[p].steps[i].status = "PASS" /\ ~IsSome(result[p].steps[i].error)
            /\ result[p].steps[k].status = "FAIL"
            /\ IsSome(result[p].steps[k].error)
            /\ result[p].status = "FAIL"
            /\ IsSome(result[p].error)
            /\ \A i \in (k + 1)..Len(steps(p)) : ~Attempted(p, i)

\* C1 witness: the first of two steps passed its checks, its click was
\* rejected, and the call returned
C1_Witness ==
    /\ Returned(1) /\ LaunchSucceeded(1) /\ FirstFailure(1, 1)
    /\ Len(steps(1)) = 2
    /\ Occurs(Rejected(1, "click", 1))

\* C2: when launchApp failed, the call has returned a result with status
\* ERROR, the error set and no step result, and nothing of any step was
\* called: no locator and no operation of an element.
C2_LaunchFailureIsError ==
    \A p \in callers :
        LaunchFailed(p) =>
            /\ Returned(p)
            /\ result[p].status = "ERROR"
            /\ IsSome(result[p].error)
            /\ result[p].steps = <<>>
            /\ \A n \in DOMAIN trace :
                 trace[n].by = p =>
                    /\ trace[n].step = 0
                    /\ trace[n].op \notin {"executeStep", "locator", "click", "typeText", "getText"}

\* C2 witness: openApplication was rejected for a test case that has steps
C2_Witness ==
    /\ Returned(1) /\ LaunchFailed(1)
    /\ Occurs(Rejected(1, "openApplication", 0))
    /\ Len(steps(1)) = 2

\* C3: when the launch and all N steps succeeded, the call has returned a
\* result with exactly N step results, all PASS, in the order of
\* testCase.steps, with status PASS and no error.
C3_AllStepsPass ==
    \A p \in callers :
        (LaunchSucceeded(p) /\ \A i \in 1..Len(steps(p)) : StepSucceeded(p, i)) =>
            /\ Returned(p)
            /\ Len(result[p].steps) = Len(steps(p))
            /\ \A i \in 1..Len(steps(p)) :
                 /\ result[p].steps[i].step = steps(p)[i]
                 /\ result[p].steps[i].status = "PASS"
                 /\ ~IsSome(result[p].steps[i].error)
            /\ result[p].status = "PASS"
            /\ ~IsSome(result[p].error)

\* C3 witness: two different steps succeeded and the call returned
C3_Witness ==
    /\ Returned(1) /\ LaunchSucceeded(1)
    /\ Len(steps(1)) = 2 /\ steps(1)[1] # steps(1)[2]
    /\ StepSucceeded(1, 1) /\ StepSucceeded(1, 2)

\* C4: executeTestCase never throws: its promise is never rejected, and
\* whenever the launch or a step failed (a rejected openApplication, locator
\* or element operation, a failed check of the step's fields, a failed
\* verification) the call has returned a result with status FAIL or ERROR
\* and the error set.
C4_NeverThrows ==
    \A p \in callers :
        /\ pc[p] # "threw"
        /\ (LaunchFailed(p) \/ \E i \in 1..Len(steps(p)) : StepFailed(p, i)) =>
              /\ Returned(p)
              /\ result[p].status \in {"FAIL", "ERROR"}
              /\ IsSome(result[p].error)

\* C4 witness: the first step passed, the verification of the second failed,
\* and the call returned
C4_Witness ==
    /\ Returned(1) /\ StepSucceeded(1, 1) /\ StepFailed(1, 2)
    /\ steps(1)[2].action = "verify"
    /\ \E n \in DOMAIN trace : trace[n].op = "getText" /\ trace[n].ev = "resolve"

\* the entries of the trace that are requests to the client or to sleep
IsRequest(n) == trace[n].ev = "request" /\ trace[n].op \in ClientOps \cup {"sleep"}
\* the request at position n of the trace resolved before position m
ResolvedBefore(n, m) ==
    \E r \in (n + 1)..(m - 1) :
        /\ trace[r].by = trace[n].by /\ trace[r].ev = "resolve"
        /\ trace[r].op = trace[n].op /\ trace[r].step = trace[n].step

\* C5: the steps of a call run in declaration order: whatever a call does for
\* step i+1 comes after executeStep of step i resolved and after every request
\* of step i resolved, and nothing of an earlier step comes after it.
C5_StepsInOrder ==
    \A m \in DOMAIN trace :
        trace[m].step >= 1 =>
            /\ trace[m].step <= Len(steps(trace[m].by))
            /\ \A n \in 1..(m - 1) :
                 trace[n].by = trace[m].by => trace[n].step <= trace[m].step
            /\ trace[m].step >= 2 =>
                 /\ \E n \in 1..(m - 1) :
                      trace[n] = Resolved(trace[m].by, "executeStep", trace[m].step - 1)
                 /\ \A n \in 1..(m - 1) :
                      (/\ trace[n].by = trace[m].by
                       /\ trace[n].step = trace[m].step - 1
                       /\ IsRequest(n)) => ResolvedBefore(n, m)

\* C5 witness: the click of step 1 resolved and the locator of step 2 is requested
C5_Witness ==
    /\ Occurs(Resolved(1, "click", 1))
    /\ \E n \in DOMAIN trace :
         trace[n].op = "locator" /\ trace[n].step = 2 /\ trace[n].ev = "request"

\* call p is between its invocation and its return
InFlight(p) == pc[p] \notin {"NotStarted", "returned", "threw"}

\* C6 as stated: two calls on the same TestRunner never overlap: a call
\* requests nothing from the client while another call that has made a
\* request is not yet in a terminal state.
C6_CallsNeverOverlap ==
    \A p \in callers : \A q \in callers \ {p} : ~(InFlight(p) /\ InFlight(q))

\* C6 amended: the steps of one call never run concurrently: a call makes a
\* request to the client or to sleep only after each of its own earlier
\* requests resolved.  (Calls are not serialized against each other.)
C6_OwnRequestsSequential ==
    \A m \in DOMAIN trace :
        IsRequest(m) =>
            \A n \in 1..(m - 1) :
                (trace[n].by = trace[m].by /\ IsRequest(n)) => ResolvedBefore(n, m)

\* C6 witness: the requests of two calls interleave on the client: call 1,
\* then call 2, then call 1 again, while neither call has returned
C6_Witness ==
    /\ InFlight(1) /\ InFlight(2)
    /\ \E a, b, c \in DOMAIN trace :
         /\ a < b /\ b < c
         /\ trace[a].by = 1 /\ trace[b].by = 2 /\ trace[c].by = 1
         /\ \A n \in {a, b, c} : trace[n].ev = "request" /\ trace[n].op \in ClientOps

\* the state of the call in the life cycle of a test case
Phase(p) ==
    CASE pc[p] = "NotStarted" -> "NotStarted"
      [] pc[p] \in {"openApplication", "settle"} -> "Launching"
      [] pc[p] \in {"locator", "element", "sleep"} -> "Running"
      [] pc[p] = "returned" /\ result[p].status = "PASS" -> "Passed"
      [] pc[p] = "returned" /\ result[p].status = "FAIL" -> "Failed"
      [] pc[p] = "returned" /\ result[p].status = "ERROR" -> "Error"
      [] OTHER -> "Threw"
Terminal == {"Passed", "Failed", "Error"}

\* one step of call p along the chain
\*   NotStarted -> Launching -> Running(1) -> .. -> Running(N) -> Passed | Failed,
\*   Launching -> Error
\* A step whose checks fail, and a test case without steps, end the call in
\* the action that would have entered Running.
ChainStep(p) ==
    LET N == Len(steps(p))
        ph == Phase(p)
        ph2 == Phase(p)'
        done == Len(result[p].steps)
        done2 == Len(result'[p].steps)
    IN CASE ph = "NotStarted" -> ph2 \in {"NotStarted", "Launching"}
         [] ph = "Launching" ->
              \/ ph2 = "Launching"
              \/ ph2 = "Running" /\ idx'[p] = 1
              \/ ph2 = "Error" /\ done2 = 0
              \/ ph2 = "Passed" /\ N = 0
              \/ ph2 = "Failed" /\ done2 = 1
         [] ph = "Running" ->
              \/ ph2 = "Running" /\ idx'[p] \in {idx[p], idx[p] + 1}
              \/ ph2 = "Passed" /\ idx[p] = N /\ done2 = N
              \/ ph2 = "Failed" /\ done2 \in {idx[p], idx[p] + 1}
         [] ph \in Terminal -> ph2 = ph /\ result'[p] = result[p]
         [] OTHER -> FALSE

\* C7: when every request and every sleep completes, a call that was made
\* reaches a terminal state, Passed, Failed or Error, and returns; it gets
\* there along the chain, and once in a terminal state it stays in it.
C7_ReachesOneTerminalState ==
    /\ \A p \in Calls : (pc[p] # "NotStarted") ~> (Phase(p) \in Terminal)
    /\ [][\A p \in callers : ChainStep(p)]_vars

\* C7 witness: the call reached Failed from Running, in its second step
C7_Witness ==
    /\ Phase(1) = "Failed" /\ idx[1] = 2 /\ Len(result[1].steps) = 2
    /\ Occurs(Rejected(1, "typeText", 2))

\* C8: the result a call returns has duration = endTime - startTime, which is
\* not negative, and endTime is the time of the return, after the last step
\* that was attempted or after the failed launch.
C8_DurationIsEndMinusStart ==
    \A p \in callers :
        Returned(p) =>
            /\ result[p].duration = result[p].endTime - result[p].startTime
            /\ result[p].duration >= 0
            /\ result[p].endTime = now

\* C8 witness: a call returned FAIL after time passed
C8_Witness ==
    /\ Returned(1) /\ result[1].status = "FAIL"
    /\ result[1].duration = MaxTime /\ result[1].endTime > result[1].startTime

\* a click step without selector, a type or verify step without selector or
\* without value
LacksRequiredField(step) ==
    \/ step.action \in {"click", "type", "verify"} /\ ~IsSome(step.selector)
    \/ step.action \in {"type", "verify"} /\ ~IsSome(step.value)

\* C9: a step that lacks a field its action requires fails in the checks of
\* executeStep, before any request: nothing is asked of the client for it,
\* the step is recorded FAIL with the message of the missing field, it is the
\* last step result, and the status of the result is FAIL.
C9_ValidationBeforeRemoteCall ==
    \A p \in callers : \A i \in 1..Len(steps(p)) :
        (Attempted(p, i) /\ LacksRequiredField(steps(p)[i])) =>
            /\ \A n \in DOMAIN trace :
                 (trace[n].by = p /\ trace[n].step = i) => trace[n].op = "executeStep"
            /\ StepFailed(p, i)
            /\ Returned(p)
            /\ Len(result[p].steps) = i
            /\ result[p].steps[i].status = "FAIL"
            /\ IsSome(result[p].steps[i].error)
            /\ Get(result[p].steps[i].error).kind \in {"Missing selector", "Missing value"}
            /\ Get(result[p].steps[i].error).action = steps(p)[i].action
            /\ result[p].status = "FAIL"
            /\ \A j \in (i + 1)..Len(steps(p)) : ~Attempted(p, j)

\* C9 witness: a type step with a selector and no value was reached as the
\* second step, after a step that passed
C9_Witness ==
    /\ Returned(1) /\ StepSucceeded(1, 1) /\ Attempted(1, 2)
    /\ steps(1)[2].action = "type"
    /\ IsSome(steps(1)[2].selector) /\ ~IsSome(steps(1)[2].value)

\* C10: for a verify step with a selector and a value whose getText resolved
\* with some text, the step succeeds exactly when the text contains the
\* value; when it does not, the step fails with a verification error whose
\* message holds the expected value and the actual text.
C10_VerifyIffContains ==
    \A n \in DOMAIN trace :
        (trace[n].ev = "resolve" /\ trace[n].op = "getText") =>
            LET p == trace[n].by
                i == trace[n].step
                step == steps(p)[i]
                text == trace[n].text
                contained == \E k \in 0..(Len(text) - Len(Get(step.value))) :
                                SubSeq(text, k + 1, k + Len(Get(step.value))) = Get(step.value)
            IN /\ step.action = "verify" /\ IsSome(step.selector) /\ IsSome(step.value)
               /\ StepSucceeded(p, i) <=> contained
               /\ StepFailed(p, i) <=> ~contained
               /\ ~contained =>
                    /\ result[p].steps[i].status = "FAIL"
                    /\ result[p].steps[i].error =
                         Some([kind |-> "Verification failed",
                               expected |-> Get(step.value), actual |-> text])
               /\ contained => result[p].steps[i].status = "PASS"

\* C10 witness: getText answered a text that holds the value inside, not at
\* its start, and the verify step passed
C10_Witness ==
    \E n \in DOMAIN trace :
        /\ trace[n].ev = "resolve" /\ trace[n].op = "getText"
        /\ trace[n].text = StrA50
        /\ steps(trace[n].by)[trace[n].step].value = Some(Str50)
        /\ StepSucceeded(trace[n].by, trace[n].step)

\* the requests call p made for step i to op
RequestsOf(p, i, op) ==
    {n \in DOMAIN trace :
        trace[n].by = p /\ trace[n].step = i /\ trace[n].ev = "request" /\ trace[n].op = op}
\* call p asked something of the client for step i
ClientAsked(p, i) ==
    \E n \in DOMAIN trace : trace[n].by = p /\ trace[n].step = i /\ trace[n].op \in ClientOps

\* what is common to C11 as stated and as amended: a wait step that is
\* reached sleeps once for ms milliseconds, asks nothing of the client and
\* does not fail; once the sleep is over it is recorded PASS and the next
\* step, if there is one, is started.
WaitStepSleeps(p, i, ms) ==
    /\ Cardinality(RequestsOf(p, i, "sleep")) = 1
    /\ \A n \in RequestsOf(p, i, "sleep") : trace[n].arg.ms = ms
    /\ ~ClientAsked(p, i)
    /\ ~StepFailed(p, i)
    /\ Occurs(Resolved(p, "sleep", i)) =>
         /\ StepSucceeded(p, i)
         /\ Len(result[p].steps) >= i
         /\ result[p].steps[i].status = "PASS"
         /\ i < Len(steps(p)) => Attempted(p, i + 1)

\* C11 as stated: a wait step never fails and asks nothing of the client;
\* without value it sleeps 1000 ms, with a value v it sleeps parseInt(v) ms;
\* then it is recorded PASS and the next step is started.
C11_WaitSleepsParsedValue ==
    \A p \in callers : \A i \in 1..Len(steps(p)) :
        (steps(p)[i].action = "wait" /\ Attempted(p, i)) =>
            WaitStepSleeps(p, i, IF IsSome(steps(p)[i].value)
                                 THEN parseInt(Get(steps(p)[i].value)) ELSE 1000)

\* C11 amended: the same, but the value counts only when it is not the empty
\* string: without value or with the value "" the step sleeps 1000 ms, with
\* another value v it sleeps parseInt(v) ms, which is 50 ms for "50".
C11_WaitSleepsParsedNonEmptyValue ==
    \A p \in callers : \A i \in 1..Len(steps(p)) :
        (steps(p)[i].action = "wait" /\ Attempted(p, i)) =>
            /\ WaitStepSleeps(p, i,
                   IF steps(p)[i].value \in {None, Some(EmptyStr)} THEN 1000
                   ELSE parseInt(Get(steps(p)[i].value)))
            /\ steps(p)[i].value = Some(Str50) =>
                   \A n \in RequestsOf(p, i, "sleep") : trace[n].arg.ms = 50

\* C11 witness: a wait step with the value "50" slept, was recorded PASS and
\* the second step was started
C11_Witness ==
    /\ Len(steps(1)) = 2 /\ steps(1)[1] = Step("wait", None, Some(Str50))
    /\ Occurs(Resolved(1, "sleep", 1)) /\ Attempted(1, 2)
    /\ result[1].steps[1].status = "PASS"

\* C12: a step whose action is none of click, type, verify, wait fails
\* without any request (nothing of the client, no sleep), with an error whose
\* message names the action; it is recorded FAIL as the last step result,
\* the status of the result is FAIL and no later step is attempted.
C12_UnknownActionFails ==
    \A p \in callers : \A i \in 1..Len(steps(p)) :
        (steps(p)[i].action \notin {"click", "type", "verify", "wait"} /\ Attempted(p, i)) =>
            /\ \A n \in DOMAIN trace :
                 (trace[n].by = p /\ trace[n].step = i) => trace[n].op = "executeStep"
            /\ StepFailed(p, i)
            /\ Returned(p)
            /\ Len(result[p].steps) = i
            /\ result[p].steps[i].status = "FAIL"
            /\ result[p].steps[i].error =
                 Some([kind |-> "Unknown step action", action |-> steps(p)[i].action])
            /\ result[p].status = "FAIL"
            /\ IsSome(result[p].error)
            /\ \A j \in (i + 1)..Len(steps(p)) : ~Attempted(p, j)

\* C12 witness: a scroll step was reached as the first of two steps
C12_Witness ==
    /\ Returned(1) /\ Len(steps(1)) = 2
    /\ steps(1)[1].action = "scroll" /\ StepFailed(1, 1)


\* ------------------------------------------------------------------ the methods called directly
\* the client rejected a request of the direct call with error e
DirectFailure(e) == \E n \in DOMAIN trace : trace[n] = RejectedWith(trace[n].op, e)
DirectFailed == \E e \in Thrown : DirectFailure(e)

\* C13: verifyElementVisible never rejects: when locating the element or
\* isVisible failed it has returned false, and when isVisible answered it has
\* returned exactly that answer.
C13_VisibleNeverThrows ==
    direct.method = "verifyElementVisible" =>
        /\ direct.pc # "threw"
        /\ DirectFailed => direct.pc = "returned" /\ direct.value = Some(FALSE)
        /\ \A v \in BOOLEAN :
             Occurs(ResolvedWith("isVisible", v)) =>
                 direct.pc = "returned" /\ direct.value = Some(v)
        /\ direct.pc = "returned" =>
             DirectFailed \/ \E v \in BOOLEAN : Occurs(ResolvedWith("isVisible", v))

\* isVisible failed with an error of the server and the method returned false
C13_Witness ==
    /\ direct.method = "verifyElementVisible"
    /\ Occurs(RejectedWith("isVisible", ApiErrorThrown))
    /\ direct.pc = "returned"
    /\ direct.value = Some(FALSE)

\* the methods that throw again what they catch
Propagating == {"launchApp", "clickElement", "typeText", "getText", "pressKey"}

\* C14: called directly, launchApp, clickElement, typeText, getText and
\* pressKey reject with the very error the client rejected with, and a call
\* that returned normally had no request rejected.
C14_DirectCallsPropagate ==
    direct.method \in Propagating =>
        /\ \A e \in Thrown :
             DirectFailure(e) => direct.pc = "threw" /\ direct.error = Some(e)
        /\ direct.pc = "returned" => ~DirectFailed
        /\ direct.pc = "threw" => DirectFailed

\* getText was called and locating the element failed with a thrown value
C14_Witness ==
    /\ direct.method = "getText"
    /\ Occurs(RejectedWith("locator", ValueThrown))
    /\ direct.pc = "threw"
    /\ direct.error = Some(ValueThrown)


\* ------------------------------------------------------------------ retries and timeout
\* C15: whatever the runner's retries and timeout, a call that started has
\* asked launchApp and openApplication exactly once, and has called
\* executeStep at most once for each step: nothing that failed is tried again.
C15_NothingIsRetried ==
    \A p \in callers :
        /\ pc[p] # "NotStarted" =>
             /\ Cardinality(RequestsOf(p, 0, "launchApp")) = 1
             /\ Cardinality(RequestsOf(p, 0, "openApplication")) = 1
        /\ \A i \in 1..Len(steps(p)) :
             /\ Cardinality(RequestsOf(p, i, "executeStep")) <= 1
             /\ StepFailed(p, i) => \A j \in DOMAIN trace : trace[j].by = p => trace[j].step <= i
        /\ LaunchFailed(p) => \A j \in DOMAIN trace : trace[j].by = p => trace[j].step = 0

\* a runner made with retries 3 ran a step that failed at the client, and the
\* call returned
C15_Witness ==
    /\ config.retries = 3
    /\ Returned(1)
    /\ Occurs(Rejected(1, "locator", 1))
    /\ StepFailed(1, 1)
    /\ Cardinality(RequestsOf(1, 1, "executeStep")) = 1


\* ------------------------------------------------------------------ launchApp
\* the positions of the trace where the direct call asked op
DirectRequests(op) ==
    {n \in DOMAIN trace : trace[n].by = 0 /\ trace[n].ev = "request" /\ trace[n].op = op}

\* what is common to C16 as stated and as amended: launchApp asks the client
\* once to open the application called name; it sleeps the settle delay of
\* 2000 ms once, after the client answered, and returns when the delay is
\* over; when the client refuses it sleeps not at all and throws the error.
LaunchOpens(name) ==
    /\ direct.pc # "NotStarted" =>
         /\ Cardinality(DirectRequests("openApplication")) = 1
         /\ \A n \in DirectRequests("openApplication") : trace[n].arg = [name |-> name]
    /\ \A n \in DirectRequests("sleep") :
         /\ trace[n].arg = [ms |-> 2000]
         /\ \E r \in 1..(n - 1) : trace[r] = Resolved(0, "openApplication", 0)
    /\ Cardinality(DirectRequests("sleep")) =
         IF Occurs(Resolved(0, "openApplication", 0)) THEN 1 ELSE 0
    /\ direct.pc = "returned" <=> Occurs(Resolved(0, "sleep", 0))
    /\ \A e \in Thrown :
         DirectFailure(e) =>
             /\ DirectRequests("sleep") = {}
             /\ direct.pc = "threw" /\ direct.error = Some(e)

\* C16 as stated: launchApp opens "calc" when the name is "calculator", and
\* the name it was given otherwise; the settle delay of 2000 ms follows a
\* successful open only.
C16_AliasIsCalculator ==
    direct.method = "launchApp" =>
        LaunchOpens(IF direct.name = <<"c", "a", "l", "c", "u", "l", "a", "t", "o", "r">>
                    THEN <<"c", "a", "l", "c">> ELSE direct.name)

\* C16 as amended: launchApp opens "calc" when the name is "calculator" in
\* any mix of capital and small letters, and the name it was given otherwise;
\* the settle delay of 2000 ms follows a successful open only.
C16_AliasIgnoresCase ==
    direct.method = "launchApp" =>
        LaunchOpens(IF toLowerCase(direct.name) = <<"c", "a", "l", "c", "u", "l", "a", "t", "o", "r">>
                    THEN <<"c", "a", "l", "c">> ELSE direct.name)

\* launchApp("Calculator") asked the client to open "calc", waited and returned
C16_Witness ==
    /\ direct.method = "launchApp"
    /\ direct.name = StrCalculatorCap
    /\ Occurs(Request(0, "openApplication", 0, [name |-> StrCalc]))
    /\ Occurs(Request(0, "sleep", 0, [ms |-> 2000]))
    /\ direct.pc = "returned"


\* ------------------------------------------------------------------ the order of the remote calls
\* the step has the fields the checks of executeStep ask for
Validated(step) ==
    /\ step.action \in {"click", "type", "verify"}
    /\ Truthy(step.selector)
    /\ step.action \in {"type", "verify"} => Truthy(step.value)

\* the positions of the trace where call p asked an operation of the element
\* of step i
ElementRequests(p, i) ==
    {n \in DOMAIN trace :
        /\ trace[n].by = p /\ trace[n].step = i /\ trace[n].ev = "request"
        /\ trace[n].op \in {"click", "typeText", "getText"}}

\* executeStep of step i of call p is over
StepOver(p, i) == StepSucceeded(p, i) \/ StepFailed(p, i)

\* openApplication is the first thing call p asks of the client, and p asks
\* for an element or for an operation of one only after openApplication
\* resolved and the settle delay was over
OpenComesFirst(p) ==
    \A m \in DOMAIN trace :
        (trace[m].by = p /\ trace[m].ev = "request" /\ trace[m].op \in ClientOps) =>
            \/ trace[m].op = "openApplication" /\ trace[m].step = 0
                 /\ \A n \in 1..(m - 1) : trace[n].by = p => trace[n].op \notin ClientOps
            \/ /\ trace[m].op # "openApplication" /\ trace[m].step >= 1
               /\ \E n \in 1..(m - 1) : trace[n] = Resolved(p, "openApplication", 0)
               /\ \E n \in 1..(m - 1) : trace[n] = Resolved(p, "sleep", 0)

\* for step i of call p, a step with its fields: one request for the element
\* at most, one operation at most, of the kind of the step, asked after the
\* element was found; when the step is over the element was asked for once
\* and the operation as many times as ops(found) tells
StepCalls(p, i, ops(_)) ==
    /\ Cardinality(RequestsOf(p, i, "locator")) <= 1
    /\ Cardinality(ElementRequests(p, i)) <= 1
    /\ \A n \in ElementRequests(p, i) :
         /\ trace[n].op = CASE steps(p)[i].action = "click" -> "click"
                            [] steps(p)[i].action = "type" -> "typeText"
                            [] steps(p)[i].action = "verify" -> "getText"
         /\ \E r \in 1..(n - 1) : trace[r] = Resolved(p, "locator", i)
    /\ Cardinality(RequestsOf(p, i, "sleep")) = 0
    /\ StepOver(p, i) =>
         /\ Cardinality(RequestsOf(p, i, "locator")) = 1
         /\ Cardinality(ElementRequests(p, i)) = ops(Occurs(Resolved(p, "locator", i)))

OneOperation(found) == 1
OneOperationIfFound(found) == IF found THEN 1 ELSE 0

\* C17 as stated: openApplication is the first remote call, elements are
\* asked for and operated on only after it resolved and the settle delay was
\* over, and a click, type or verify step with its fields makes exactly one
\* locate followed by exactly one operation of the element.
C17_LocateThenOperate ==
    \A p \in callers :
        /\ OpenComesFirst(p)
        /\ \A i \in 1..Len(steps(p)) :
             Validated(steps(p)[i]) => StepCalls(p, i, OneOperation)

\* C17 as amended: the same, with exactly one operation of the element when
\* the locate succeeded and none when it failed.
C17_LocateThenOperateIfFound ==
    \A p \in callers :
        /\ OpenComesFirst(p)
        /\ \A i \in 1..Len(steps(p)) :
             Validated(steps(p)[i]) => StepCalls(p, i, OneOperationIfFound)

\* the first step has its fields, its locate failed, no operation of the
\* element was asked and the call returned
C17_Witness ==
    /\ Len(steps(1)) >= 1
    /\ Validated(steps(1)[1])
    /\ Occurs(Rejected(1, "locator", 1))
    /\ ElementRequests(1, 1) = {}
    /\ StepFailed(1, 1)
    /\ Returned(1)


\* ------------------------------------------------------------------ the result while the call runs
\* the result of call p, in a state where the call is suspended or over
ResultWellFormed(p) ==
    LET done == result[p].steps
    IN /\ Len(done) <= Len(steps(p))
       /\ \A i \in 1..Len(done) : done[i].step = steps(p)[i]
       /\ \A i \in 1..(Len(done) - 1) : done[i].status = "PASS"
       /\ \A i \in 1..Len(done) : done[i].status \in {"PASS", "FAIL"}
       /\ result[p].status \in {"PASS", "FAIL", "ERROR"}
       /\ result[p].status = "FAIL" <=> (Len(done) >= 1 /\ done[Len(done)].status = "FAIL")

\* the status of the result of call p changes from PASS to FAIL or to ERROR,
\* or not at all
StatusChange(p) ==
    (pc[p] # "NotStarted" /\ result'[p].status # result[p].status) =>
        result[p].status = "PASS" /\ result'[p].status \in {"FAIL", "ERROR"}

EmptyRequiredField(step) ==
    \/ step.action \in {"click", "type", "verify"} /\ step.selector = Some(<<>>)
    \/ step.action \in {"type", "verify"} /\ step.value = Some(<<>>)

\* the message recorded for the step when the field is absent: the selector
\* is checked before the value
AbsentFieldMessage(step) ==
    IF step.selector \in {None, Some(<<>>)}
    THEN [kind |-> "Missing selector", action |-> step.action]
    ELSE [kind |-> "Missing value", action |-> step.action]

\* C19: an empty string is treated like an absent field: a click, type or
\* verify step whose selector is "" and a type or verify step whose value is
\* "" fail the checks of executeStep with the message of the missing field
\* and nothing is asked of the client (so a verify step that expects ""
\* never passes); a wait step whose value is "" sleeps 1000 ms.
C19_EmptyStringIsAbsent ==
    \A p \in callers : \A i \in 1..Len(steps(p)) :
        Attempted(p, i) =>
            /\ EmptyRequiredField(steps(p)[i]) =>
                 /\ \A n \in DOMAIN trace :
                      (trace[n].by = p /\ trace[n].step = i) => trace[n].op = "executeStep"
                 /\ StepFailed(p, i) /\ ~StepSucceeded(p, i)
                 /\ Returned(p)
                 /\ Len(result[p].steps) = i
                 /\ result[p].steps[i].status = "FAIL"
                 /\ result[p].steps[i].error = Some(AbsentFieldMessage(steps(p)[i]))
                 /\ result[p].status = "FAIL"
            /\ (steps(p)[i].action = "wait" /\ steps(p)[i].value = Some(<<>>)) =>
                 WaitStepSleeps(p, i, 1000)

\* a verify step with a selector that expects "" was reached as second step
\* and failed with nothing asked of the client
C19_Witness ==
    /\ Len(steps(1)) = 2
    /\ steps(1)[2] = Step("verify", Some(StrSel), Some(EmptyStr))
    /\ StepSucceeded(1, 1)
    /\ StepFailed(1, 2)
    /\ ~ClientAsked(1, 2)
    /\ result[1].steps[2].error = Some([kind |-> "Missing value", action |-> "verify"])


\* ------------------------------------------------------------------ calls that overlap
\* the result call p returned tells of p's own test case and of what
\* happened to p's own requests
OwnResult(p) ==
    /\ Len(result[p].steps) <= Len(steps(p))
    /\ \A i \in 1..Len(result[p].steps) :
         /\ result[p].steps[i].step = steps(p)[i]
         /\ result[p].steps[i].status = "FAIL" <=> StepFailed(p, i)
         /\ result[p].steps[i].status = "PASS" <=> StepSucceeded(p, i)
    /\ result[p].status = "ERROR" <=> LaunchFailed(p)
    /\ result[p].status = "FAIL" <=> \E i \in 1..Len(steps(p)) : StepFailed(p, i)
    /\ IsSome(result[p].error) <=> result[p].status # "PASS"

\* a step in which the result of call p changes is a step of call p
OwnChange(p) ==
    result'[p] # result[p] =>
        /\ Len(trace') > Len(trace)
        /\ \A n \in (Len(trace) + 1)..Len(trace') : trace'[n].by = p

\* C20: with two calls that interleave at their awaits, each result that is
\* returned holds the step results of its own test case and tells of its own
\* failures only, and no step of one call changes the result of the other.
C20_ResultsIndependent ==
    /\ [](\A p \in callers : Returned(p) => OwnResult(p))
    /\ [][\A p \in callers : OwnChange(p)]_vars

\* call 2 started before a step of call 1 failed and went on after it; call 1
\* returned FAIL and call 2 returned PASS with a step result
C20_Witness ==
    /\ Returned(1) /\ Returned(2)
    /\ result[1].status = "FAIL"
    /\ result[2].status = "PASS"
    /\ Len(result[2].steps) >= 1
    /\ \E n, m, k \in DOMAIN trace :
         /\ n < m /\ m < k
         /\ trace[n].by = 2
         /\ trace[m].by = 1 /\ trace[m].ev = "reject" /\ trace[m].op = "executeStep"
         /\ trace[k].by = 2 /\ trace[k].op = "executeStep"

====
